---- MODULE Spec2Model ----
(***************************************************************************)
(* Model of psycopg2ct/_impl/typecasts.py: the type registry               *)
(* (binary_types and the per-connection / per-cursor _typecasts), the      *)
(* primitive binary decoders, the record decoder, the binary array decoder *)
(* and the text array parser.                                              *)
(*                                                                         *)
(* Python values are tagged tuples: <<"None">>, <<"int", n>>,              *)
(* <<"bool", b>>, <<"list", seq>>, ...  A call's outcome is                *)
(* <<"return", v>> or <<"raise", exception name>>.  Byte strings are       *)
(* sequences of 0..255.                                                    *)
(***************************************************************************)
EXTENDS Integers, Sequences, FiniteSets, TLC

VARIABLES
    binary_types,    \* the module-level dict OID -> Type (by name)
    conn_typecasts,  \* Connection._typecasts, one dict per connection
    curs_typecasts,  \* Cursor._typecasts, one dict per cursor
    pc,              \* position in the module's import-time registrations
    ncalls,          \* number of register_type calls made after import
    call,            \* the call in progress or last made: <<function, args...>>
    result,          \* its outcome, or Pending
    frame            \* local variables of a decoder call that is running

vars == <<binary_types, conn_typecasts, curs_typecasts, pc, ncalls, call, result, frame>>

regvars == <<binary_types, conn_typecasts, curs_typecasts>>

-----------------------------------------------------------------------------
(* Bounds of the model *)

\* register_type calls made after import
MaxCalls == 2
\* longest raw byte string handed to a primitive decoder
MaxBytes == 17
\* longest text between the outer braces of a text array literal
MaxInner == 4
\* largest declared dimension size / lower bound of a binary array
MaxDim == 3

-----------------------------------------------------------------------------
(* Python values *)

PyNone == <<"None">>
PyInt(n) == <<"int", n>>
PyBool(b) == <<"bool", b>>
PyList(s) == <<"list", s>>
PyTuple(s) == <<"tuple", s>>
Ret(v) == <<"return", v>>
Raise(e) == <<"raise", e>>
Pending == <<"pending">>
NoFrame == [fn |-> "none", at |-> "none"]

IsRet(r) == r[1] = "return"
IsRaise(r) == r[1] = "raise"

Min(a, b) == IF a < b THEN a ELSE b
Max(a, b) == IF a > b THEN a ELSE b

\* A slice index brought into 0..len, as Python does for s[a:b]
SliceIndex(i, len) == IF i < 0 THEN Max(0, len + i) ELSE Min(i, len)

\* s[a:b]
PySub(s, a, b) ==
    LET lo == SliceIndex(a, Len(s))
        hi == SliceIndex(b, Len(s))
    IN  IF hi <= lo THEN <<>> ELSE SubSeq(s, lo + 1, hi)

\* s[:n]
PyTake(s, n) == PySub(s, 0, n)

\* s[n:]
PyDrop(s, n) == PySub(s, n, Len(s))

\* Python truth value of the objects the model passes as a scope
Truthy(v) ==
    CASE v[1] = "None" -> FALSE
      [] v[1] = "int"  -> v[2] # 0
      [] v[1] = "str"  -> v[2] # ""
      [] OTHER         -> TRUE

-----------------------------------------------------------------------------
(* struct.unpack / struct.pack, network byte order *)

\* struct.unpack('!h', b)[0] for a 2-byte b
unpack_h(b) == (IF b[1] >= 128 THEN b[1] - 256 ELSE b[1]) * 256 + b[2]

\* struct.unpack('!i', b)[0] for a 4-byte b
unpack_i(b) ==
    (IF b[1] >= 128 THEN b[1] - 256 ELSE b[1]) * 16777216
        + b[2] * 65536 + b[3] * 256 + b[4]

\* A 64-bit integer hi * 2^32 + a * 2^16 + c (hi signed 32-bit, a and c in
\* 0..65535) as a Python int.  TLC's integers are 32 bits wide, so a value
\* outside that range is carried as the three limbs, <<"int", hi, a, c>>.
MkInt64(hi, a, c) ==
    IF hi = 0 /\ a < 32768 THEN PyInt(a * 65536 + c)
    ELSE IF hi = -1 /\ a >= 32768 THEN PyInt((a - 65536) * 65536 + c)
    ELSE <<"int", hi, a, c>>

\* struct.unpack('!q', b)[0] for an 8-byte b
unpack_q(b) ==
    MkInt64(unpack_i(SubSeq(b, 1, 4)), b[5] * 256 + b[6], b[7] * 256 + b[8])

pack_h(n) == << (n \div 256) % 256, n % 256 >>

pack_i(n) ==
    << (n \div 16777216) % 256, (n \div 65536) % 256, (n \div 256) % 256, n % 256 >>

\* struct.pack('!q', v) of a Python int v as built by MkInt64
pack_q(v) ==
    IF Len(v) = 2
    THEN (IF v[2] < 0 THEN <<255, 255, 255, 255>> ELSE <<0, 0, 0, 0>>) \o pack_i(v[2])
    ELSE pack_i(v[2]) \o pack_h(v[3]) \o pack_h(v[4])

-----------------------------------------------------------------------------
(* Type objects *)

NoCaster == <<"None">>

\* Type.__init__
Type(name, values, caster, py_caster) ==
    [name |-> name, values |-> values, caster |-> caster, py_caster |-> py_caster]

\* parse_array(obj): the closure, named by the Type it is bound to
parse_array(obj) == <<"parse_array", obj>>

\* The import-time registrations, in source order
DefaultTypes == <<
    Type("BINARY", <<17>>, <<"parse_bytea">>, NoCaster),
    Type("ROWID", <<26>>, <<"parse_int">>, NoCaster),
    Type("UNICODE", <<19, 18, 25, 1042, 1043>>, <<"parse_unicode">>, NoCaster),
    Type("BOOLEAN", <<16>>, <<"parse_bool">>, NoCaster),
    Type("DECIMAL", <<1700>>, <<"parse_numeric">>, NoCaster),
    Type("FLOAT", <<700, 701>>, <<"parse_float">>, NoCaster),
    Type("INTEGER", <<20, 21, 23>>, <<"parse_int">>, NoCaster),
    Type("INTERVAL", <<1186>>, <<"parse_interval">>, NoCaster),
    Type("TIME", <<>>, <<"parse_time">>, NoCaster),
    Type("UNKNOWN", <<705>>, <<"parse_unk">>, NoCaster),
    Type("DATE", <<1082>>, <<"parse_date">>, NoCaster),
    Type("TIMESTAMP", <<1115>>, <<"parse_timestamp">>, NoCaster),
    Type("TIMESTAMPTZ", <<1184>>, <<"parse_timestamptz">>, NoCaster),
    Type("RECORD", <<2249>>, <<"parse_record">>, NoCaster),
    Type("INET", <<869>>, <<"parse_inet">>, NoCaster),
    Type("VOID", <<2278>>, <<"parse_void">>, NoCaster),
    Type("BINARYARRAY", <<1001>>, parse_array("BINARY"), NoCaster),
    Type("BOOLEANARRAY", <<1000>>, parse_array("BOOLEAN"), NoCaster),
    Type("DATEARRAY", <<1182>>, parse_array("DATE"), NoCaster),
    Type("DATETIMEARRAY", <<1115, 1185>>, parse_array("TIMESTAMP"), NoCaster),
    Type("DECIMALARRAY", <<1231>>, parse_array("DECIMAL"), NoCaster),
    Type("FLOATARRAY", <<1017, 1021, 1022>>, parse_array("FLOAT"), NoCaster),
    Type("INTEGERARRAY", <<1005, 1006, 1007>>, parse_array("INTEGER"), NoCaster),
    Type("INTERVALARRAY", <<1187>>, parse_array("INTERVAL"), NoCaster),
    Type("LONGINTEGERARRAY", <<1016>>, parse_array("INTEGER"), NoCaster),
    Type("ROWIDARRAY", <<1013, 1028>>, parse_array("ROWID"), NoCaster),
    Type("STRINGARRAY", <<1002, 1003, 1009, 1014, 1015>>, parse_array("UNICODE"), NoCaster),
    Type("TIMEARRAY", <<1183, 1270>>, parse_array("TIME"), NoCaster)
    >>

\* new_type(values, name, castobj)
new_type(values, name, castobj) == Type(name, values, NoCaster, castobj)

\* new_array_type(values, name, baseobj)
new_array_type(values, name, baseobj) == Type(name, values, parse_array(baseobj), NoCaster)

\* Types an application builds and registers after import: one overriding
\* int4, one handling a user-defined OID as well as int4, and one handling
\* no OID at all.
UserTypes == {
    new_type(<<23>>, "MYINT", <<"castobj", "MYINT">>),
    new_type(<<16400, 23>>, "MYROW", <<"castobj", "MYROW">>),
    new_type(<<>>, "NOOIDS", <<"castobj", "NOOIDS">>)
    }

AllTypes == {DefaultTypes[k] : k \in DOMAIN DefaultTypes} \cup UserTypes

TypeObj(name) == CHOOSE t \in AllTypes : t.name = name

-----------------------------------------------------------------------------
(* Connections, cursors and scopes *)

Connections == {1, 2}
Cursors == {1, 2}

Connection(k) == <<"Connection", k>>
Cursor(k) == <<"Cursor", k>>

\* Cursor._conn
_conn(cursor) == Connection(cursor[2])

\* Connection._py_enc
_py_enc(conn) == IF conn[2] = 1 THEN "ascii" ELSE "latin-1"

\* isinstance(scope, Connection) / isinstance(scope, Cursor)
IsConnection(v) == v[1] = "Connection"
IsCursor(v) == v[1] = "Cursor"

\* Objects that are neither None, a Connection nor a Cursor
OtherScopes == { <<"str", "x">>, <<"str", "">>, <<"int", 0>> }

Scopes ==
    {PyNone} \cup {Connection(k) : k \in Connections}
             \cup {Cursor(k) : k \in Cursors} \cup OtherScopes

-----------------------------------------------------------------------------
(* Python dicts keyed by OID *)

EmptyDict == [k \in {} |-> ""]

\* d[k] = v
SetItem(d, k, v) == [x \in DOMAIN d \cup {k} |-> IF x = k THEN v ELSE d[x]]

\* for value in values: d[value] = v
RECURSIVE SetItems(_, _, _)
SetItems(d, values, v) ==
    IF values = <<>> THEN d
    ELSE SetItems(SetItem(d, Head(values), v), Tail(values), v)

-----------------------------------------------------------------------------
(* The primitive decoders.  Each takes (value, length, cursor).            *)

\* struct.unpack(fmt, b) needs exactly the bytes fmt describes
StructError == Raise("struct.error")

parse_bytea(value, length, cursor) == Ret(<<"buffer", PyTake(value, length)>>)

\* parse_int with the 2-byte width unpacked as unsigned ('!H')
parse_int_unsigned(value, length, cursor) ==
    IF length = -1 THEN Ret(PyNone)
    ELSE IF length = 2 THEN
        IF Len(PyTake(value, length)) = 2
        THEN Ret(PyInt(PyTake(value, length)[1] * 256 + PyTake(value, length)[2]))
        ELSE StructError
    ELSE IF length = 4 THEN
        IF Len(PyTake(value, length)) = 4
        THEN Ret(PyInt(unpack_i(PyTake(value, length)))) ELSE StructError
    ELSE IF length = 8 THEN
        IF Len(PyTake(value, length)) = 8
        THEN Ret(unpack_q(PyTake(value, length))) ELSE StructError
    ELSE Raise("ValueError")

parse_int(value, length, cursor) ==
    IF length = -1 THEN Ret(PyNone)
    ELSE IF length = 2 THEN
        IF Len(PyTake(value, length)) = 2
        THEN Ret(PyInt(unpack_h(PyTake(value, length)))) ELSE StructError
    ELSE IF length = 4 THEN
        IF Len(PyTake(value, length)) = 4
        THEN Ret(PyInt(unpack_i(PyTake(value, length)))) ELSE StructError
    ELSE IF length = 8 THEN
        IF Len(PyTake(value, length)) = 8
        THEN Ret(unpack_q(PyTake(value, length))) ELSE StructError
    ELSE Raise("ValueError")

parse_bool(value, length, cursor) ==
    IF Len(value) = 0 THEN Raise("IndexError")
    ELSE Ret(PyBool(value[1] = 1))

\* The 4-byte branch unpacks '!q' from at most 4 bytes, which struct
\* refuses.  A double is denoted by its 8 bytes.
parse_float(value, length, cursor) ==
    IF length = -1 THEN Ret(PyNone)
    ELSE IF length = 4 THEN StructError
    ELSE IF length = 8 THEN
        IF Len(PyTake(value, length)) = 8
        THEN Ret(<<"float", PyTake(value, length)>>) ELSE StructError
    ELSE Raise("ValueError")

\* The n int16 digits of a 2n-byte string
RECURSIVE unpack_digits(_)
unpack_digits(b) ==
    IF Len(b) < 2 THEN <<>>
    ELSE <<unpack_h(SubSeq(b, 1, 2))>> \o unpack_digits(SubSeq(b, 3, Len(b)))

\* The Decimal is denoted by the digits, weight, sign and scale it is
\* computed from: sum of d[i] * 10000^(weight - i), negated if sign,
\* quantized to dscale places.
parse_numeric(value, length, cursor) ==
    IF length = -1 THEN Ret(PyNone)
    ELSE IF Len(PyTake(value, 8)) # 8 THEN StructError
    ELSE LET num_digits == unpack_h(SubSeq(value, 1, 2))
             weight == unpack_h(SubSeq(value, 3, 4))
             sign == unpack_h(SubSeq(value, 5, 6))
             dscale == unpack_h(SubSeq(value, 7, 8))
             rest == PySub(value, 8, length)
         IN  IF Len(rest) # 2 * Max(num_digits, 0) THEN StructError
             ELSE Ret(<<"Decimal", unpack_digits(rest), weight, sign # 0, dscale>>)

\* integer_datetimes is True: the value is microseconds since 2000-01-01.
\* The datetime is denoted by that offset; the OverflowError of an offset
\* outside datetime's range is not modelled.  The assert statement is taken
\* to be enabled.
parse_timestamp(value, length, cursor) ==
    IF length # 8 THEN Raise("AssertionError")
    ELSE IF Len(PyTake(value, length)) # 8 THEN StructError
    ELSE Ret(<<"datetime", unpack_q(PyTake(value, length))>>)

parse_timestamptz(value, length, cursor) == parse_timestamp(value, length, cursor)

\* str(value[:length]).decode(cursor._conn._py_enc)
parse_unicode(value, length, cursor) ==
    LET b == PyTake(value, length)
    IN  IF _py_enc(_conn(cursor)) = "ascii" /\ \E k \in DOMAIN b : b[k] >= 128
        THEN Raise("UnicodeDecodeError")
        ELSE Ret(<<"unicode", b>>)

\* The timedelta(days=months*30+days, microseconds=microseconds) is denoted
\* by its three fields.
parse_interval(value, length, cursor) ==
    LET b == PyTake(value, length)
    IN  IF Len(b) # 16 THEN StructError
        ELSE Ret(<<"timedelta", unpack_i(SubSeq(b, 13, 16)),
                   unpack_i(SubSeq(b, 9, 12)), unpack_q(SubSeq(b, 1, 8))>>)

\* date(2000,1,1) + timedelta(days=val) exists for val in MinDateOffset..MaxDateOffset
MinDateOffset == -730119
MaxDateOffset == 2921939

parse_date(value, length, cursor) ==
    LET b == PyTake(value, length)
    IN  IF Len(b) # 4 THEN StructError
        ELSE IF unpack_i(b) < MinDateOffset \/ unpack_i(b) > MaxDateOffset
        THEN Raise("OverflowError")
        ELSE Ret(<<"date", unpack_i(b)>>)

\* Three values are unpacked into four names
parse_inet(value, length, cursor) ==
    IF Len(PyTake(value, 3)) # 3 THEN StructError ELSE Raise("ValueError")

parse_unk(value, length, cursor) == Ret(PyNone)

parse_void(value, length, cursor) == Ret(PyNone)

parse_debug(value, length, cursor) == Ret(PyNone)

parse_time(value, length, cursor) == parse_debug(value, length, cursor)

\* A decoder function an application passes to new_type: castobj(value, cursor)
castobj(name, value, cursor) == Ret(<<"user", name, value>>)

-----------------------------------------------------------------------------
(* Type.cast, parse_record and the closure parse_array returns *)

RECURSIVE Type_cast(_, _, _, _)
RECURSIVE record_loop(_, _, _)
RECURSIVE inner_step(_)
RECURSIVE inner_run(_)

\* typecast(caster, value, length, cursor)
typecast(caster, value, length, cursor) == Type_cast(caster, value, cursor, length)

\* parse_record's while loop over the remaining data
record_loop(data, res, cursor) ==
    IF Len(data) = 0 THEN Ret(PyTuple(res))
    ELSE IF Len(PyTake(data, 8)) # 8 THEN StructError
    ELSE LET oid == unpack_i(SubSeq(data, 1, 4))
             olen == unpack_i(SubSeq(data, 5, 8))
             data1 == PyDrop(data, 8)
             val == PyTake(data1, olen)
             data2 == PyDrop(data1, olen)
         IN  IF oid \notin DOMAIN binary_types THEN Raise("KeyError")
             ELSE LET r == typecast(binary_types[oid], val, olen, cursor)
                  IN  IF IsRaise(r) THEN r
                      ELSE record_loop(data2, Append(res, r[2]), cursor)

parse_record(value, length, cursor) ==
    LET data == PyTake(value, length)
    IN  IF Len(PyTake(data, 4)) # 4 THEN StructError
        ELSE record_loop(PyDrop(data, 4), <<>>, cursor)

\* The locals of inner(value, length, cursor) as it starts
inner_frame(obj, value, length, cursor) ==
    [fn |-> "inner", obj |-> obj, value |-> value, cursor |-> cursor,
     ndim |-> 0, offset |-> 0, doffset |-> 0, data |-> <<>>,
     x |-> 0, n |-> 0, y |-> 0, vals |-> <<>>,
     at |-> "header", ret |-> Pending]

\* One step of inner: the header; one dimension descriptor, or the return
\* when none is left; one element, or the end of the dimension
inner_step(f) ==
    CASE f.at = "header" ->
            IF Len(PyTake(f.value, 12)) # 12
            THEN [f EXCEPT !.at = "done", !.ret = StructError]
            ELSE LET ndim == unpack_i(SubSeq(f.value, 1, 4))
                 IN  [f EXCEPT !.ndim = ndim, !.offset = 12,
                               !.doffset = 12 + ndim * 8, !.at = "dim"]
      [] f.at = "dim" ->
            IF f.x >= f.ndim
            THEN [f EXCEPT !.at = "done",
                           !.ret = Ret(IF f.ndim = 1 THEN f.data[1] ELSE PyList(f.data))]
            ELSE LET d == PySub(f.value, f.offset, f.offset + 8)
                 IN  IF Len(d) # 8
                     THEN [f EXCEPT !.at = "done", !.ret = StructError]
                     ELSE [f EXCEPT !.offset = f.offset + 8, !.vals = <<>>,
                                    !.n = unpack_i(SubSeq(d, 5, 8)) + 1,
                                    !.y = 0, !.at = "elem"]
      [] f.at = "elem" ->
            IF f.y >= f.n
            THEN [f EXCEPT !.data = Append(f.data, PyList(f.vals)),
                           !.x = f.x + 1, !.at = "dim"]
            ELSE LET lb == PySub(f.value, f.doffset, f.doffset + 4)
                 IN  IF Len(lb) # 4
                     THEN [f EXCEPT !.at = "done", !.ret = StructError]
                     ELSE LET l == unpack_i(lb)
                              r == Type_cast(f.obj,
                                       PySub(f.value, f.doffset + 4, f.doffset + 4 + l),
                                       f.cursor, l)
                          IN  IF IsRaise(r)
                              THEN [f EXCEPT !.doffset = f.doffset + 4,
                                             !.at = "done", !.ret = r]
                              ELSE [f EXCEPT !.vals = Append(f.vals, r[2]),
                                             !.doffset = f.doffset + 4 + l,
                                             !.y = f.y + 1]
      [] OTHER -> f

\* inner run to its end
inner_run(f) == IF f.at = "done" THEN f.ret ELSE inner_run(inner_step(f))

\* Type.cast(value, cursor, length), the Type given by name
Type_cast(name, value, cursor, length) ==
    LET self == TypeObj(name)
        fn == self.caster[1]
    IN  IF self.py_caster # NoCaster THEN castobj(self.py_caster[2], value, cursor)
        ELSE CASE fn = "parse_bytea" -> parse_bytea(value, length, cursor)
               [] fn = "parse_int" -> parse_int(value, length, cursor)
               [] fn = "parse_unicode" -> parse_unicode(value, length, cursor)
               [] fn = "parse_bool" -> parse_bool(value, length, cursor)
               [] fn = "parse_numeric" -> parse_numeric(value, length, cursor)
               [] fn = "parse_float" -> parse_float(value, length, cursor)
               [] fn = "parse_interval" -> parse_interval(value, length, cursor)
               [] fn = "parse_time" -> parse_time(value, length, cursor)
               [] fn = "parse_unk" -> parse_unk(value, length, cursor)
               [] fn = "parse_date" -> parse_date(value, length, cursor)
               [] fn = "parse_timestamp" -> parse_timestamp(value, length, cursor)
               [] fn = "parse_timestamptz" -> parse_timestamptz(value, length, cursor)
               [] fn = "parse_record" -> parse_record(value, length, cursor)
               [] fn = "parse_inet" -> parse_inet(value, length, cursor)
               [] fn = "parse_void" -> parse_void(value, length, cursor)
               [] fn = "parse_array" ->
                      inner_run(inner_frame(self.caster[2], value, length, cursor))

-----------------------------------------------------------------------------
(* The registry *)

\* register_type with the scope's dict never selected: every registration
\* goes to the module's dict
register_type_global(type_obj, scope) ==
    /\ binary_types' = SetItems(binary_types, TypeObj(type_obj).values, type_obj)
    /\ UNCHANGED <<conn_typecasts, curs_typecasts>>
    /\ result' = Ret(PyNone)

\* register_type(type_obj, scope=None), the Type given by name.  The dict
\* chosen is the module's when scope is false, the scope's own when it is
\* a Connection or a Cursor, and None otherwise; storing into None raises
\* TypeError at the first OID.
register_type(type_obj, scope) ==
    LET values == TypeObj(type_obj).values
    IN  IF ~Truthy(scope)
        THEN /\ binary_types' = SetItems(binary_types, values, type_obj)
             /\ UNCHANGED <<conn_typecasts, curs_typecasts>>
             /\ result' = Ret(PyNone)
        ELSE IF IsConnection(scope)
        THEN /\ conn_typecasts' =
                    [conn_typecasts EXCEPT ![scope[2]] = SetItems(@, values, type_obj)]
             /\ UNCHANGED <<binary_types, curs_typecasts>>
             /\ result' = Ret(PyNone)
        ELSE IF IsCursor(scope)
        THEN /\ curs_typecasts' =
                    [curs_typecasts EXCEPT ![scope[2]] = SetItems(@, values, type_obj)]
             /\ UNCHANGED <<binary_types, conn_typecasts>>
             /\ result' = Ret(PyNone)
        ELSE /\ UNCHANGED regvars
             /\ result' = IF values = <<>> THEN Ret(PyNone) ELSE Raise("TypeError")

\* The lookup a cursor or connection makes for an OID: its own dict, then
\* (for a cursor) its connection's, then the module's
lookup(curs, conns, glob, oid, context) ==
    IF IsCursor(context) /\ oid \in DOMAIN curs[context[2]]
    THEN Ret(curs[context[2]][oid])
    ELSE LET conn == IF IsCursor(context) THEN _conn(context) ELSE context
         IN  IF oid \in DOMAIN conns[conn[2]]
             THEN Ret(conns[conn[2]][oid])
             ELSE IF oid \in DOMAIN glob
             THEN Ret(glob[oid])
             ELSE Raise("KeyError")

\* The lookup in the current state
resolve(oid, context) ==
    lookup(curs_typecasts, conn_typecasts, binary_types, oid, context)

Contexts == {Connection(k) : k \in Connections} \cup {Cursor(k) : k \in Cursors}

NumDefaultTypes == Len(DefaultTypes)

\* The state after the import has run: every default type registered
RECURSIVE ImportedFrom(_, _)
ImportedFrom(d, k) ==
    IF k > NumDefaultTypes THEN d
    ELSE ImportedFrom(SetItems(d, DefaultTypes[k].values, DefaultTypes[k].name), k + 1)

Imported == ImportedFrom(EmptyDict, 1)

-----------------------------------------------------------------------------
(* Wire encodings of the inputs the model feeds the decoders *)

RECURSIVE Concat(_)
Concat(ss) == IF ss = <<>> THEN <<>> ELSE Head(ss) \o Concat(Tail(ss))

\* A record field (OID, length, bytes)
EncodeField(fld) == pack_i(fld[1]) \o pack_i(Len(fld[2])) \o fld[2]

\* A record: the field count, then the fields
EncodeRecord(fields) ==
    pack_i(Len(fields)) \o Concat([k \in DOMAIN fields |-> EncodeField(fields[k])])

\* An array element: NULL is <<"None">>, anything else the element's bytes
EncodeElem(e) == IF e = PyNone THEN pack_i(-1) ELSE pack_i(Len(e)) \o e

\* An array: ndim, flags, element OID; (size, lower bound) per dimension;
\* the flat run of elements
EncodeArray(oid, dims, elems) ==
    pack_i(Len(dims)) \o pack_i(0) \o pack_i(oid)
        \o Concat([k \in DOMAIN dims |-> pack_i(dims[k][1]) \o pack_i(dims[k][2])])
        \o Concat([k \in DOMAIN elems |-> EncodeElem(elems[k])])

\* Records whose fields are all present (not NULL)
RecordSamples == {
    << <<23, pack_i(5)>>, <<25, <<104, 105>> >> >>,
    << <<16400, <<1>> >> >>,
    << <<23, pack_h(5)>>, <<16400, <<7>> >> >>,
    << <<16, <<1>> >> >>,
    << <<2249, EncodeRecord(<< <<23, pack_i(5)>> >>)>> >>,
    << <<1007, EncodeArray(23, << <<1, 0>> >>, <<pack_i(9)>>)>> >>,
    << <<99999, <<>> >> >>,
    <<>>
    }

\* Payloads handed to parse_record: the samples, a record with a NULL
\* field, and a truncated one
RecordPayloads ==
    {EncodeRecord(fl) : fl \in RecordSamples}
        \cup { pack_i(1) \o pack_i(23) \o pack_i(-1),
               pack_i(1) \o pack_i(23) }

-----------------------------------------------------------------------------
(* The program: import, then register_type and parse_record calls *)

Init ==
    /\ binary_types = EmptyDict
    /\ conn_typecasts = [k \in Connections |-> EmptyDict]
    /\ curs_typecasts = [k \in Cursors |-> EmptyDict]
    /\ pc = 1
    /\ ncalls = 0
    /\ call = <<"import">>
    /\ result = Pending
    /\ frame = NoFrame

\* _default_type(name, oids, caster): the pc-th registration of the import
_default_type ==
    /\ pc <= NumDefaultTypes
    /\ register_type(DefaultTypes[pc].name, PyNone)
    /\ call' = <<"_default_type", DefaultTypes[pc].name>>
    /\ pc' = pc + 1
    /\ UNCHANGED <<ncalls, frame>>

\* Types an application registers: its own, or a default one again
Registrable == {t.name : t \in UserTypes} \cup {"INTEGER"}

\* An application's register_type(type_obj, scope) call
Register ==
    /\ pc > NumDefaultTypes
    /\ ncalls < MaxCalls
    /\ \E t \in Registrable, scope \in Scopes :
          /\ register_type(t, scope)
          /\ call' = <<"register_type", t, scope>>
    /\ ncalls' = ncalls + 1
    /\ UNCHANGED <<pc, frame>>

\* A parse_record(value, length, cursor) call
ParseRecord ==
    /\ pc > NumDefaultTypes
    /\ \E p \in RecordPayloads, c \in Cursors :
          /\ call' = <<"parse_record", p, Len(p), Cursor(c)>>
          /\ result' = parse_record(p, Len(p), Cursor(c))
    /\ UNCHANGED <<regvars, pc, ncalls, frame>>

Next == _default_type \/ Register \/ ParseRecord

Spec == Init /\ [][Next]_vars

-----------------------------------------------------------------------------
(* The text array parser, _parse_array.__call__ *)

\* Characters of the literals the model scans
Quote == "\""
Backslash == "\\"
Chars == {"{", "}", ",", " ", Quote, Backslash, "1", "N", "U", "L", "l"}

\* c.lower()
Lower(c) ==
    CASE c = "N" -> "n" [] c = "U" -> "u" [] c = "L" -> "l" [] OTHER -> c

PyStr(chars) == <<"str", chars>>

\* The inner while loop: from position i, the item's text buf and the
\* position the loop leaves.  bare records, for each character of buf,
\* whether it was taken outside a quoted run and outside an escape.
RECURSIVE scan_item(_, _, _, _, _, _, _)
scan_item(s, i, value_length, quotes, escape_char, buf, bare) ==
    IF i >= value_length THEN [i |-> i, buf |-> buf, bare |-> bare]
    ELSE LET c == s[i + 1]
         IN  IF ~escape_char
             THEN IF c = Quote
                  THEN scan_item(s, i + 1, value_length, quotes + 1, FALSE, buf, bare)
                  ELSE IF c = Backslash
                  THEN scan_item(s, i + 1, value_length, quotes, TRUE, buf, bare)
                  ELSE IF quotes % 2 = 0 /\ (c = "}" \/ c = ",")
                  THEN [i |-> i, buf |-> buf, bare |-> bare]
                  ELSE scan_item(s, i + 1, value_length, quotes, FALSE,
                                 Append(buf, c), Append(bare, quotes % 2 = 0))
             ELSE scan_item(s, i + 1, value_length, quotes, FALSE,
                            Append(buf, c), Append(bare, FALSE))

\* The locals of __call__(value, length, cursor) as it starts.  The lists
\* it builds are objects: lists[k] is the k-th list created, an inner list
\* appears in its parent as <<"ref", k>>, and array and stack hold such k.
\* handed is the history of the texts passed to the element caster.
scan_frame(caster, value, length, cursor) ==
    [fn |-> "_parse_array", caster |-> caster, s |-> value, cursor |-> cursor,
     i |-> 0, array |-> 0, stack |-> <<>>, lists |-> <<>>, value_length |-> 0,
     handed |-> <<>>, at |-> "assert", ret |-> Pending]

\* The value of list k, inner lists followed
RECURSIVE Deref(_, _)
Deref(lists, k) ==
    PyList([j \in DOMAIN lists[k] |->
               IF lists[k][j][1] = "ref" THEN Deref(lists, lists[k][j][2])
               ELSE lists[k][j]])

\* One step of __call__: the assertion and the set-up, or one turn of the
\* outer while loop, or the return
scan_step(f) ==
    CASE f.at = "assert" ->
            IF Len(f.s) = 0
            THEN [f EXCEPT !.at = "done", !.ret = Raise("IndexError")]
            ELSE IF ~(f.s[1] = "{" /\ f.s[Len(f.s)] = "}")
            THEN [f EXCEPT !.at = "done", !.ret = Raise("AssertionError")]
            ELSE [f EXCEPT !.i = 1, !.lists = << <<>> >>, !.array = 1,
                           !.stack = <<1>>, !.value_length = Len(f.s) - 1,
                           !.at = "loop"]
      [] f.at = "loop" ->
            IF f.i >= f.value_length
            THEN [f EXCEPT !.at = "done", !.ret = Ret(Deref(f.lists, f.stack[Len(f.stack)]))]
            ELSE LET c == f.s[f.i + 1]
                 IN  IF c = "{"
                     THEN LET sub_array == Len(f.lists) + 1
                          IN  [f EXCEPT !.lists = Append(
                                            [f.lists EXCEPT ![f.array] =
                                                Append(@, <<"ref", sub_array>>)],
                                            <<>>),
                                        !.stack = Append(f.stack, sub_array),
                                        !.array = sub_array,
                                        !.i = f.i + 1]
                     ELSE IF c = "}"
                     THEN IF Len(f.stack) = 1
                          THEN [f EXCEPT !.stack = <<>>, !.at = "done",
                                         !.ret = Raise("IndexError")]
                          ELSE [f EXCEPT !.stack = SubSeq(f.stack, 1, Len(f.stack) - 1),
                                         !.array = f.stack[Len(f.stack) - 1],
                                         !.i = f.i + 1]
                     ELSE IF c = "," \/ c = " "
                     THEN [f EXCEPT !.i = f.i + 1]
                     ELSE LET it == scan_item(f.s, f.i, f.value_length, 0, FALSE, <<>>, <<>>)
                              isnull == /\ Len(it.buf) = 4
                                        /\ [k \in 1..4 |-> Lower(it.buf[k])]
                                               = <<"n", "u", "l", "l">>
                              val == IF isnull
                                     THEN typecast(f.caster, PyNone, 0, f.cursor)
                                     ELSE typecast(f.caster, PyStr(it.buf),
                                                   Len(it.buf), f.cursor)
                          IN  IF IsRaise(val)
                              THEN [f EXCEPT !.i = it.i, !.at = "done", !.ret = val]
                              ELSE [f EXCEPT
                                      !.i = it.i,
                                      !.lists = [f.lists EXCEPT ![f.array] = Append(@, val[2])],
                                      !.handed = IF isnull THEN @
                                                 ELSE Append(@, [text |-> it.buf,
                                                                 bare |-> it.bare])]
      [] OTHER -> f

-----------------------------------------------------------------------------
(* Calls of one primitive decoder on one input *)

Int16Samples ==
    {-32768, -32767, -257, -256, -255, -129, -128, -2, -1,
     0, 1, 2, 127, 128, 255, 256, 257, 32766, 32767}

Int32Samples ==
    Int16Samples \cup
    {-2147483647 - 1, -2147483647, -16777217, -16777216, -65537, -65536, -32769,
     32768, 65535, 65536, 16777215, 16777216, 2147483646, 2147483647}

\* 64-bit values: those of 32 bits, and limbs around the sign and carry
\* boundaries
Int64Samples ==
    {PyInt(n) : n \in Int32Samples} \cup
    {MkInt64(hi, a, c) : hi \in {-2147483647 - 1, -2, -1, 0, 1, 2147483647},
                         a \in {0, 1, 32767, 32768, 65535},
                         c \in {0, 1, 65535}}

IntEncodings ==
    {pack_h(n) : n \in Int16Samples} \cup {pack_i(n) : n \in Int32Samples}
        \cup {pack_q(v) : v \in Int64Samples}

\* Byte strings of every length up to MaxBytes: a fill byte, then a last byte
ByteSamples ==
    {[k \in 1..n |-> IF k = n THEN last ELSE fill] :
        n \in 0..MaxBytes, fill \in {0, 255}, last \in {0, 1, 128}}

PrimitiveDecoders ==
    {"parse_bool", "parse_int", "parse_float", "parse_numeric", "parse_date",
     "parse_timestamp", "parse_timestamptz", "parse_interval", "parse_bytea",
     "parse_unicode"}

StubDecoders == {"parse_inet", "parse_unk", "parse_void", "parse_time"}

Lengths == {-1, 0, 1, 2, 3, 4, 8, 16}

PrimCalls ==
    {<<fn, value, length, Cursor(c)>> :
        fn \in PrimitiveDecoders \cup StubDecoders,
        value \in ByteSamples \cup IntEncodings,
        length \in Lengths, c \in Cursors}

\* The state a decoder is called in: the import done, nothing registered since
Imported_state ==
    /\ binary_types = Imported
    /\ conn_typecasts = [k \in Connections |-> EmptyDict]
    /\ curs_typecasts = [k \in Cursors |-> EmptyDict]
    /\ pc = NumDefaultTypes + 1
    /\ ncalls = 0

InitPrim ==
    /\ Imported_state
    /\ call \in PrimCalls
    /\ result = Pending
    /\ frame = NoFrame

Calling(fn) == call[1] = fn /\ result = Pending

Returns(r) == result' = r /\ UNCHANGED <<regvars, pc, ncalls, call, frame>>

Call_parse_bytea == Calling("parse_bytea") /\ Returns(parse_bytea(call[2], call[3], call[4]))
Call_parse_int == Calling("parse_int") /\ Returns(parse_int(call[2], call[3], call[4]))
Call_parse_bool == Calling("parse_bool") /\ Returns(parse_bool(call[2], call[3], call[4]))
Call_parse_float == Calling("parse_float") /\ Returns(parse_float(call[2], call[3], call[4]))
Call_parse_numeric == Calling("parse_numeric") /\ Returns(parse_numeric(call[2], call[3], call[4]))
Call_parse_timestamp == Calling("parse_timestamp") /\ Returns(parse_timestamp(call[2], call[3], call[4]))
Call_parse_timestamptz == Calling("parse_timestamptz") /\ Returns(parse_timestamptz(call[2], call[3], call[4]))
Call_parse_unicode == Calling("parse_unicode") /\ Returns(parse_unicode(call[2], call[3], call[4]))
Call_parse_interval == Calling("parse_interval") /\ Returns(parse_interval(call[2], call[3], call[4]))
Call_parse_date == Calling("parse_date") /\ Returns(parse_date(call[2], call[3], call[4]))
Call_parse_inet == Calling("parse_inet") /\ Returns(parse_inet(call[2], call[3], call[4]))
Call_parse_unk == Calling("parse_unk") /\ Returns(parse_unk(call[2], call[3], call[4]))
Call_parse_void == Calling("parse_void") /\ Returns(parse_void(call[2], call[3], call[4]))
Call_parse_time == Calling("parse_time") /\ Returns(parse_time(call[2], call[3], call[4]))

NextPrim ==
    \/ Call_parse_bytea \/ Call_parse_int \/ Call_parse_bool \/ Call_parse_float
    \/ Call_parse_numeric \/ Call_parse_timestamp \/ Call_parse_timestamptz
    \/ Call_parse_unicode \/ Call_parse_interval \/ Call_parse_date
    \/ Call_parse_inet \/ Call_parse_unk \/ Call_parse_void \/ Call_parse_time

SpecPrim == InitPrim /\ [][NextPrim]_vars

-----------------------------------------------------------------------------
(* A binary array decode, step by step *)

\* products of the declared sizes
RECURSIVE Product(_)
Product(sizes) == IF sizes = <<>> THEN 1 ELSE Head(sizes) * Product(Tail(sizes))

\* Dimension descriptors: up to two dimensions, size and lower bound up to MaxDim
DimLists ==
    {<<>>} \cup {<<d>> : d \in (0..MaxDim) \X (0..MaxDim)}
           \cup ((0..MaxDim) \X (0..MaxDim)) \X ((0..MaxDim) \X (0..MaxDim))

\* The flat run for dims: as many 4-byte integers 1, 2, ... as the sizes
\* declare, with at most one of them NULL
ElemRuns(dims) ==
    LET total == IF dims = <<>> THEN 0
                 ELSE Product([k \in DOMAIN dims |-> dims[k][1]])
    IN  {[k \in 1..total |-> IF k = null THEN PyNone ELSE pack_i(k)] : null \in 0..total}

ArrayValues ==
    UNION {{EncodeArray(23, dims, elems) : elems \in ElemRuns(dims)} : dims \in DimLists}

\* inner(value, length, cursor) of parse_array(INTEGER)
ArrayCalls == {<<"inner", "INTEGER", value, Len(value), Cursor(1)>> : value \in ArrayValues}

InitArr ==
    /\ Imported_state
    /\ call \in ArrayCalls
    /\ result = Pending
    /\ frame = inner_frame(call[2], call[3], call[4], call[5])

InnerStep ==
    /\ frame' = inner_step(frame)
    /\ result' = frame'.ret
    /\ UNCHANGED <<regvars, pc, ncalls, call>>

Running(fn, at) == frame.fn = fn /\ frame.at = at

\* ndim, flags, oid = struct.unpack('!iii', value[:12]) and the offsets
InnerHeader == Running("inner", "header") /\ InnerStep

\* for x in range(ndim): the next dimension descriptor
InnerDim == Running("inner", "dim") /\ frame.x < frame.ndim /\ InnerStep

\* for y in range(dim[1]+1): the next element
InnerElem == Running("inner", "elem") /\ frame.y < frame.n /\ InnerStep

\* data.append(vals)
InnerEndDim == Running("inner", "elem") /\ frame.y >= frame.n /\ InnerStep

\* return data[0] or data
InnerReturn == Running("inner", "dim") /\ frame.x >= frame.ndim /\ InnerStep

NextArr == InnerHeader \/ InnerDim \/ InnerElem \/ InnerEndDim \/ InnerReturn

SpecArr == InitArr /\ [][NextArr]_vars

-----------------------------------------------------------------------------
(* A text array parse, step by step *)

\* Literals without the framing
UnframedLiterals == {<<>>, <<"1">>, <<"{", "1">>, <<"1", "}">>}

\* __call__(value, length, cursor) of _parse_array(MYINT)
TextCall(s) == <<"_parse_array", "MYINT", s, Len(s), Cursor(1)>>

\* The literal is framed, { ... } with up to MaxInner characters between
\* the outer braces, or one of the unframed ones
InitText ==
    /\ Imported_state
    /\ \/ \E n \in 0..MaxInner : \E t \in [1..n -> Chars] :
              call = TextCall(<<"{">> \o t \o <<"}">>)
       \/ \E s \in UnframedLiterals : call = TextCall(s)
    /\ result = Pending
    /\ frame = scan_frame(call[2], call[3], call[4], call[5])

ScanStep ==
    /\ frame' = scan_step(frame)
    /\ result' = frame'.ret
    /\ UNCHANGED <<regvars, pc, ncalls, call>>

Scanning == Running("_parse_array", "loop") /\ frame.i < frame.value_length

\* assert s[0] == "{" and s[-1] == "}", and the set-up
ScanAssert == Running("_parse_array", "assert") /\ ScanStep

\* s[i] == '{'
ScanOpen == Scanning /\ frame.s[frame.i + 1] = "{" /\ ScanStep

\* s[i] == '}'
ScanClose == Scanning /\ frame.s[frame.i + 1] = "}" /\ ScanStep

\* s[i] in ', '
ScanSeparator == Scanning /\ frame.s[frame.i + 1] \in {",", " "} /\ ScanStep

\* an item
ScanItem == Scanning /\ frame.s[frame.i + 1] \notin {"{", "}", ",", " "} /\ ScanStep

\* return stack[-1]
ScanReturn ==
    Running("_parse_array", "loop") /\ frame.i >= frame.value_length /\ ScanStep

NextText ==
    ScanAssert \/ ScanOpen \/ ScanClose \/ ScanSeparator \/ ScanItem \/ ScanReturn

SpecText == InitText /\ [][NextText]_vars

-----------------------------------------------------------------------------
(* Properties *)

Range(seq) == {seq[k] : k \in DOMAIN seq}

\* C1: every primitive decoder called with declared length -1 returns None,
\* whatever bytes it is given.
C1_NullLengthDecodesToNull ==
    (call[1] \in PrimitiveDecoders /\ call[3] = -1 /\ result # Pending)
        => result = Ret(PyNone)

\* C2: register_type(t, scope) with scope a Cursor or a Connection sets every
\* OID of t.values to t in that scope's own dict, overwriting what was
\* there, and changes nothing else in that dict, in the module's dict or
\* in the dict of any other cursor or connection; afterwards a lookup
\* through the scope finds t for those OIDs, and a lookup through any
\* cursor or connection the registration is not in the chain of finds
\* what it found before.
C2_ScopedRegistration ==
    [][ (call'[1] = "register_type" /\ (IsCursor(call'[3]) \/ IsConnection(call'[3])))
        => LET t == call'[2]
               scope == call'[3]
               oids == Range(TypeObj(t).values)
               old == IF IsCursor(scope) THEN curs_typecasts[scope[2]]
                      ELSE conn_typecasts[scope[2]]
               new == IF IsCursor(scope) THEN curs_typecasts'[scope[2]]
                      ELSE conn_typecasts'[scope[2]]
               chained == IF IsCursor(scope) THEN {scope}
                          ELSE {scope} \cup {Cursor(k) : k \in {j \in Cursors :
                                                        _conn(Cursor(j)) = scope}}
           IN  /\ result' = Ret(PyNone)
               /\ binary_types' = binary_types
               /\ IsCursor(scope) => conn_typecasts' = conn_typecasts
               /\ IsConnection(scope) => curs_typecasts' = curs_typecasts
               /\ \A k \in Cursors :
                     Cursor(k) # scope => curs_typecasts'[k] = curs_typecasts[k]
               /\ \A k \in Connections :
                     Connection(k) # scope => conn_typecasts'[k] = conn_typecasts[k]
               /\ DOMAIN new = DOMAIN old \cup oids
               /\ \A oid \in oids : new[oid] = t
               /\ \A oid \in DOMAIN old \ oids : new[oid] = old[oid]
               /\ IsCursor(scope) =>
                     \A oid \in oids :
                        lookup(curs_typecasts', conn_typecasts', binary_types',
                               oid, scope) = Ret(t)
               /\ \A ctx \in Contexts \ chained :
                     \A oid \in oids \cup DOMAIN binary_types :
                        lookup(curs_typecasts', conn_typecasts', binary_types',
                               oid, ctx) = resolve(oid, ctx)
      ]_vars

\* C2 witness: MYINT was registered on cursor 1 over an earlier cursor-scope
\* entry for OID 23 (MYROW's), the module's dict still maps 23 to INTEGER,
\* cursor 1 finds MYINT, and cursor 2 and connection 2 find INTEGER.
C2_Witness ==
    /\ call = <<"register_type", "MYINT", Cursor(1)>>
    /\ result = Ret(PyNone)
    /\ 16400 \in DOMAIN curs_typecasts[1]
    /\ curs_typecasts[1][16400] = "MYROW"
    /\ curs_typecasts[1][23] = "MYINT"
    /\ binary_types[23] = "INTEGER"
    /\ resolve(23, Cursor(1)) = Ret("MYINT")
    /\ resolve(23, Cursor(2)) = Ret("INTEGER")
    /\ resolve(23, Connection(2)) = Ret("INTEGER")

\* C3: register_type with a scope that is neither None, a Connection nor a
\* Cursor fails or does nothing, and leaves every dict as it was; also for
\* a scope that is false and for a Type with no OIDs.
C3_UnrecognizedScopeChangesNothing ==
    [][ (call'[1] = "register_type" /\ call'[3] \in OtherScopes)
        => /\ regvars' = regvars
           /\ result' \in {Ret(PyNone), Raise("TypeError")}
      ]_vars

\* The tuple the claim C4 expects of a record: each field decoded by the
\* Type its OID resolves to through the cursor, its connection and the
\* module, or the lookup failure if some field's OID resolves nowhere
RECURSIVE ExpectedFields(_, _, _)
ExpectedFields(fields, res, cursor) ==
    IF fields = <<>> THEN Ret(PyTuple(res))
    ELSE LET fld == Head(fields)
             r == Type_cast(resolve(fld[1], cursor)[2], fld[2], cursor, Len(fld[2]))
         IN  IF IsRaise(r) THEN r
             ELSE ExpectedFields(Tail(fields), Append(res, r[2]), cursor)

ExpectedRecord(fields, cursor) ==
    IF \E k \in DOMAIN fields : IsRaise(resolve(fields[k][1], cursor))
    THEN Raise("KeyError")
    ELSE ExpectedFields(fields, <<>>, cursor)

\* C4: parse_record decodes each field with the Type its OID resolves to
\* through the cursor's chain (cursor, then connection, then module), and
\* fails with the lookup error exactly when some field OID is in none of
\* the three.
C4_RecordFieldsResolveThroughChain ==
    call[1] = "parse_record" =>
        \A fl \in RecordSamples :
            call[2] = EncodeRecord(fl) => result = ExpectedRecord(fl, call[4])

\* The sizes the dimension descriptors of an array value declare
DeclaredSizes(value) ==
    [k \in 1..unpack_i(SubSeq(value, 1, 4)) |->
        unpack_i(SubSeq(value, 12 + 8 * (k - 1) + 1, 12 + 8 * (k - 1) + 4))]

\* v is nested as sizes declare: sizes[1] entries, each nested as the rest
RECURSIVE HasShape(_, _)
HasShape(v, sizes) ==
    IF sizes = <<>> THEN v = PyList(<<>>)
    ELSE /\ v[1] = "list"
         /\ Len(v[2]) = sizes[1]
         /\ \A j \in DOMAIN v[2] :
               IF Len(sizes) = 1 THEN v[2][j][1] # "list"
               ELSE HasShape(v[2][j], Tail(sizes))

\* C5: the result of a binary array decode has the shape the dimension
\* descriptors' sizes declare, whatever their lower bounds: empty for
\* ndim = 0, a flat sequence of n elements for one dimension of size n,
\* nested k levels deep with sj entries at level j for k >= 2.
C5_ArrayShapeIsDeclaredShape ==
    (frame.fn = "inner" /\ frame.at = "done")
        => /\ IsRet(result)
           /\ HasShape(result[2], DeclaredSizes(call[3]))

\* C6: an array element whose length prefix is -1 decodes as None and moves
\* the read position past its 4-byte prefix only.
C6_NullElementConsumesPrefixOnly ==
    [][ (/\ frame.fn = "inner" /\ frame.at = "elem" /\ frame.y < frame.n
         /\ PySub(frame.value, frame.doffset, frame.doffset + 4) = pack_i(-1))
        => /\ frame'.vals = Append(frame.vals, PyNone)
           /\ frame'.doffset = frame.doffset + 4
      ]_vars

\* C7: no comma or space taken outside a quoted run and outside an escape
\* is part of a text handed to the element caster.
C7_BareSeparatorsNeverInItemText ==
    frame.fn = "_parse_array" =>
        \A h \in DOMAIN frame.handed :
            \A k \in DOMAIN frame.handed[h].text :
                frame.handed[h].bare[k] => frame.handed[h].text[k] \notin {",", " "}

Framed(s) == Len(s) >= 1 /\ s[1] = "{" /\ s[Len(s)] = "}"

\* C9: for a literal framed by { and }, the stack of open lists is never
\* empty during the scan, the scan does not fail, and the value returned
\* is the outermost list, the one the leading { opened.
C9_OutermostListReturned ==
    (frame.fn = "_parse_array" /\ Framed(frame.s) /\ frame.at # "assert")
        => /\ Len(frame.stack) >= 1
           /\ frame.at = "done" =>
                 (IsRet(frame.ret) /\ frame.ret = Ret(Deref(frame.lists, 1)))

\* C8: parse_int returns v for the 2-, 4- and 8-byte big-endian two's
\* complement encoding of v with that declared length, and raises
\* ValueError for a declared length other than -1, 2, 4 and 8.
C8_IntRoundTrip ==
    (call[1] = "parse_int" /\ result # Pending)
        => /\ call[3] = 2 =>
                 \A v \in Int16Samples :
                     call[2] = pack_h(v) => result = Ret(PyInt(v))
           /\ call[3] = 4 =>
                 \A v \in Int32Samples :
                     call[2] = pack_i(v) => result = Ret(PyInt(v))
           /\ call[3] = 8 =>
                 \A v \in Int64Samples :
                     call[2] = pack_q(v) => result = Ret(v)
           /\ call[3] \notin {-1, 2, 4, 8} => result = Raise("ValueError")

\* C8 witness: the most negative 64-bit value came back from its 8 bytes
C8_Witness ==
    /\ call[1] = "parse_int"
    /\ call[2] = <<128, 0, 0, 0, 0, 0, 0, 0>>
    /\ call[3] = 8
    /\ result = Ret(<<"int", -2147483647 - 1, 0, 0>>)

\* C10: once the import has run, each default Type is what the module's
\* dict holds for each of its OIDs.
C10_ImportKeepsEveryRegistration ==
    (pc > NumDefaultTypes /\ ncalls = 0)
        => \A k \in 1..NumDefaultTypes :
              \A oid \in Range(DefaultTypes[k].values) :
                  binary_types[oid] = DefaultTypes[k].name

====
